---------------------------- MODULE Spec2Model ----------------------------
(* Tic-tac-toe with a minimax opponent (zero_x_game.py).                  *)
(* The board is the module-level 3x3 list `board`; minimax mutates the    *)
(* list it is given and reverts each speculative placement, so the        *)
(* operator below threads the board through every call and returns it     *)
(* next to the result list.                                               *)
EXTENDS Integers, Sequences, FiniteSets, TLC

HUMAN == -1
COMP == 1
EMPTY == 0

(* math.inf: only its order against the scores -1, 0, +1 is used. *)
infinity == 1000

Idx == 0..2
Cell == {HUMAN, EMPTY, COMP}
Players == {HUMAN, COMP}
Boards == [Idx -> [Idx -> Cell]]

EmptyBoard == [x \in Idx |-> [y \in Idx |-> EMPTY]]

(* A board written as the source writes it, a list of three rows. *)
MkBoard(rows) == [x \in Idx |-> [y \in Idx |-> rows[x + 1][y + 1]]]

(* ---------------------------------------------------------------- wins *)
(* Mutant of win_state: the second diagonal ends in the wrong corner. *)
win_stateTypo(state) ==
    << <<state[0][0], state[0][1], state[0][2]>>,
       <<state[1][0], state[1][1], state[1][2]>>,
       <<state[2][0], state[2][1], state[2][2]>>,
       <<state[0][0], state[1][0], state[2][0]>>,
       <<state[0][1], state[1][1], state[2][1]>>,
       <<state[0][2], state[1][2], state[2][2]>>,
       <<state[0][0], state[1][1], state[2][2]>>,
       <<state[2][0], state[1][1], state[0][0]>> >>

win_state(state) ==
    << <<state[0][0], state[0][1], state[0][2]>>,
       <<state[1][0], state[1][1], state[1][2]>>,
       <<state[2][0], state[2][1], state[2][2]>>,
       <<state[0][0], state[1][0], state[2][0]>>,
       <<state[0][1], state[1][1], state[2][1]>>,
       <<state[0][2], state[1][2], state[2][2]>>,
       <<state[0][0], state[1][1], state[2][2]>>,
       <<state[2][0], state[1][1], state[0][2]>> >>

(* [player, player, player] in win_state *)
wins(state, player) ==
    LET w == win_state(state)
    IN  \E i \in 1..Len(w) : w[i] = <<player, player, player>>

(* Mutant of evaluate: the two signs exchanged. *)
evaluateSwapped(state) ==
    IF wins(state, COMP) THEN -1
    ELSE IF wins(state, HUMAN) THEN 1
    ELSE 0

evaluate(state) ==
    IF wins(state, COMP) THEN 1
    ELSE IF wins(state, HUMAN) THEN -1
    ELSE 0

(* Mutant of game_over: a full board counts as over too. *)
game_overOrFull(state) ==
    \/ wins(state, HUMAN)
    \/ wins(state, COMP)
    \/ \A x \in Idx, y \in Idx : state[x][y] # 0

game_over(state) == wins(state, HUMAN) \/ wins(state, COMP)

(* The order in which the two enumerate loops visit the cells. *)
RowMajor ==
    << <<0, 0>>, <<0, 1>>, <<0, 2>>,
       <<1, 0>>, <<1, 1>>, <<1, 2>>,
       <<2, 0>>, <<2, 1>>, <<2, 2>> >>

IsEmptyCell(state, c) == state[c[1]][c[2]] = 0

empty_cells(state) == SelectSeq(RowMajor, LAMBDA c : IsEmptyCell(state, c))

(* [x, y] in empty_cells(board): coordinates outside the grid are in no list. *)
valid_move(b, x, y) ==
    \E i \in 1..Len(empty_cells(b)) : empty_cells(b)[i] = <<x, y>>

(* ------------------------------------------------------------- minimax *)
Place(state, x, y, player) == [state EXCEPT ![x][y] = player]

(* Mutant of Revert: the speculative mark is left on the board. *)
RevertNothing(state, x, y) == state

Revert(state, x, y) == [state EXCEPT ![x][y] = 0]

(* Mutant of set_move: the cell is written whenever it is on the grid. *)
set_moveOverwrite(b, x, y, player) ==
    IF x \in Idx /\ y \in Idx
    THEN [board |-> Place(b, x, y, player), ok |-> TRUE]
    ELSE [board |-> b, ok |-> FALSE]

(* set_move on the board b: [board |-> the board afterwards, ok |-> result]. *)
set_move(b, x, y, player) ==
    IF valid_move(b, x, y)
    THEN [board |-> Place(b, x, y, player), ok |-> TRUE]
    ELSE [board |-> b, ok |-> FALSE]

(* Mutant of InitialBest: both sides start from -infinity. *)
InitialBestSame(player) == <<-1, -1, -infinity>>

InitialBest(player) ==
    IF player = COMP THEN <<-1, -1, -infinity>> ELSE <<-1, -1, infinity>>

(* Mutant of Better: the two comparisons exchanged. *)
BetterSwapped(player, score, best) ==
    IF player = COMP THEN score[3] < best[3] ELSE score[3] > best[3]

(* Mutant of Better: a tie replaces the best found so far. *)
BetterOrEqual(player, score, best) ==
    IF player = COMP THEN score[3] >= best[3] ELSE score[3] =< best[3]

Better(player, score, best) ==
    IF player = COMP THEN score[3] > best[3] ELSE score[3] < best[3]

IsLeaf(state, depth) == depth = 0 \/ game_over(state)

(* minimax mutates the list it is given, so a call is modelled by         *)
(*   [state    |-> the board as the call leaves it,                       *)
(*    best     |-> <<row, col, score>>, the list it returns,              *)
(*    reverted |-> whether, at every candidate of every loop run by the   *)
(*                 call, the board after `state[x][y] = 0` was the board  *)
(*                 before `state[x][y] = player`].                        *)
(* Search is the body of minimax; CandidateLoop is its for loop over      *)
(* empty_cells(state), from the i-th candidate on, with the board and the *)
(* best list as the loop has them at that point.                          *)
RECURSIVE CandidateLoop(_, _, _, _, _, _, _)
Search[state \in Boards, depth \in Int, player \in Players] ==
    IF IsLeaf(state, depth)
    THEN [state |-> state, best |-> <<-1, -1, evaluate(state)>>,
          reverted |-> TRUE]
    ELSE CandidateLoop(state, empty_cells(state), 1, depth, player,
                       InitialBest(player), TRUE)

CandidateLoop(state, cells, i, depth, player, best, reverted) ==
    IF i > Len(cells)
    THEN [state |-> state, best |-> best, reverted |-> reverted]
    ELSE LET x == cells[i][1]
             y == cells[i][2]
             r == Search[Place(state, x, y, player), depth - 1, -player]
             after == Revert(r.state, x, y)
             score == <<x, y, r.best[3]>>
             rev == reverted /\ r.reverted /\ after = state
         IN  IF Better(player, score, best)
             THEN CandidateLoop(after, cells, i + 1, depth, player, score, rev)
             ELSE CandidateLoop(after, cells, i + 1, depth, player, best, rev)

minimax(state, depth, player) == Search[state, depth, player]

(* ------------------------------------------------------------- ai_turn *)
(* Mutant of ai_turn: after the opening the first empty cell is taken     *)
(* instead of the cell minimax returns.                                   *)
ai_turnFirstEmpty(b) ==
    LET depth == Len(empty_cells(b))
    IN  IF depth = 0 \/ game_over(b) THEN {b}
        ELSE IF depth = 9
        THEN {set_move(b, x, y, COMP).board : x \in {0, 1, 2}, y \in {0, 1, 2}}
        ELSE {set_move(b, empty_cells(b)[1][1], empty_cells(b)[1][2],
                       COMP).board}

(* The boards ai_turn can leave: on the empty board the cell is            *)
(* choice([0, 1, 2]) twice, otherwise it is the one minimax returns.       *)
ai_turn(b) ==
    LET depth == Len(empty_cells(b))
    IN  IF depth = 0 \/ game_over(b) THEN {b}
        ELSE IF depth = 9
        THEN {set_move(b, x, y, COMP).board : x \in {0, 1, 2}, y \in {0, 1, 2}}
        ELSE LET move == minimax(b, depth, COMP)
             IN  {set_move(move.state, move.best[1], move.best[2], COMP).board}

(* str.upper() on the inputs the model types. *)
Upper(s) ==
    CASE s = "x" -> "X"
      [] s = "o" -> "O"
      [] s = "y" -> "Y"
      [] s = "n" -> "N"
      [] s = "q" -> "Q"
      [] OTHER -> s

(* int() on the lines the model types at the numpad prompt. *)
Digits == <<"0", "1", "2", "3", "4", "5", "6", "7", "8", "9", "10">>
Typed == {Digits[k] : k \in 1..Len(Digits)} \cup {"k"}
IsNumber(s) == \E k \in 1..Len(Digits) : Digits[k] = s
int(s) == (CHOOSE k \in 1..Len(Digits) : Digits[k] = s) - 1

(* human_turn's table from the numpad digit to the cell. *)
moves == [m \in 1..9 |-> <<(m - 1) \div 3, (m - 1) % 3>>]

(* --------------------------------------------------------------- bounds *)
(* main() calls itself to play again: the number of nested calls.         *)
MaxGames == 2
(* Arbitrary boards are searched when they have at most MaxEmpty empty    *)
(* cells.                                                                 *)
MaxEmpty == 2
(* set_move is tried with coordinates from -CoordSlack to 2 + CoordSlack. *)
CoordSlack == 1
(* Positions of legal play are searched when they have at most MaxSearch  *)
(* empty cells.                                                           *)
MaxSearch == 5

Depths == 0..9
Coords == (0 - CoordSlack)..(2 + CoordSlack)
Lines == {"x", "X", "o", "O", "y", "Y", "n", "N", "q", ""}
EOF == "EOF"

(* The boards of the two search scenarios. *)
Scenario1 == MkBoard(<< <<COMP, COMP, EMPTY>>,
                        <<HUMAN, HUMAN, EMPTY>>,
                        <<EMPTY, EMPTY, EMPTY>> >>)
Scenario2 == MkBoard(<< <<HUMAN, HUMAN, EMPTY>>,
                        <<EMPTY, COMP, EMPTY>>,
                        <<EMPTY, EMPTY, EMPTY>> >>)
Scenarios == {Scenario1, Scenario2}

NoCall == [op |-> "none"]
NoRet == << >>

VARIABLES
    board,      \* the module-level list `board`
    pc,         \* where main is; "unit" / "play" in the function harnesses
    h_choice,   \* main's locals
    c_choice,
    first,
    games,      \* number of calls of main() so far
    applied,    \* history: moves applied since the current main() began
    msg,        \* the end-of-game message last printed
    turn,       \* harness of legal play: the side to move
    call,       \* harnesses: the call last made, with the board before it
    ret         \* harnesses: what that call returned

vars == <<board, pc, h_choice, c_choice, first, games, applied, msg, turn,
          call, ret>>

mainVars == <<h_choice, c_choice, first, games, applied, msg>>
harnessVars == <<turn, call, ret>>

(* ================================================================ main *)
Init ==
    /\ board = EmptyBoard
    /\ pc = "symbol"
    /\ h_choice = ""
    /\ c_choice = ""
    /\ first = ""
    /\ games = 1
    /\ applied = 0
    /\ msg = ""
    /\ turn = 0
    /\ call = NoCall
    /\ ret = NoRet

Moved(b, b2) == IF b2 = b THEN 0 ELSE 1

(* while h_choice != 'O' and h_choice != 'X': one input() *)
ChooseSymbol ==
    /\ pc = "symbol"
    /\ \E in \in Lines \cup {EOF} :
          IF in = EOF
          THEN /\ pc' = "exit"
               /\ UNCHANGED <<h_choice, c_choice>>
          ELSE /\ h_choice' = Upper(in)
               /\ IF Upper(in) = "X" \/ Upper(in) = "O"
                  THEN /\ c_choice' = (IF Upper(in) = "X" THEN "O" ELSE "X")
                       /\ pc' = "first"
                  ELSE /\ c_choice' = c_choice
                       /\ pc' = "symbol"
    /\ UNCHANGED <<board, first, games, applied, msg, turn, call, ret>>

(* while first != 'Y' and first != 'N': one input() *)
ChooseFirst ==
    /\ pc = "first"
    /\ \E in \in Lines \cup {EOF} :
          IF in = EOF
          THEN /\ pc' = "exit"
               /\ first' = first
          ELSE /\ first' = Upper(in)
               /\ pc' = (IF Upper(in) = "Y" \/ Upper(in) = "N"
                         THEN "loop" ELSE "first")
    /\ UNCHANGED <<board, h_choice, c_choice, games, applied, msg, turn,
                   call, ret>>

(* Mutant of LoopTest: the loop goes on while nobody has a line, whether  *)
(* or not a cell is left.                                                *)
LoopTestNoFull ==
    /\ pc = "loop"
    /\ pc' = (IF ~game_over(board)
              THEN (IF first = "N" THEN "ai_first" ELSE "human")
              ELSE "announce")
    /\ UNCHANGED <<board, mainVars, harnessVars>>

(* The test of the main loop, and `if first == 'N'`. *)
LoopTest ==
    /\ pc = "loop"
    /\ pc' = (IF Len(empty_cells(board)) > 0 /\ ~game_over(board)
              THEN (IF first = "N" THEN "ai_first" ELSE "human")
              ELSE "announce")
    /\ UNCHANGED <<board, mainVars, harnessVars>>

(* Mutant of AiFirst: `first` keeps its 'N', so the computer moves again *)
(* at the start of the next round of the loop.                           *)
AiFirstKeepsFirst ==
    /\ pc = "ai_first"
    /\ \E b \in ai_turn(board) :
          /\ board' = b
          /\ applied' = applied + Moved(board, b)
    /\ pc' = "human"
    /\ UNCHANGED <<h_choice, c_choice, first, games, msg, harnessVars>>

(* ai_turn(c_choice, h_choice); first = '' *)
AiFirst ==
    /\ pc = "ai_first"
    /\ \E b \in ai_turn(board) :
          /\ board' = b
          /\ applied' = applied + Moved(board, b)
    /\ first' = ""
    /\ pc' = "human"
    /\ UNCHANGED <<h_choice, c_choice, games, msg, harnessVars>>

(* human_turn up to its input loop. *)
HumanTurn ==
    /\ pc = "human"
    /\ pc' = (IF Len(empty_cells(board)) = 0 \/ game_over(board)
              THEN "ai" ELSE "human_input")
    /\ UNCHANGED <<board, mainVars, harnessVars>>

(* One round of `while move < 1 or move > 9`: a line typed (int() raises  *)
(* ValueError on a line that is no number, moves[move] raises KeyError    *)
(* outside 1..9; both leave the loop running), or end of input.           *)
HumanInput ==
    /\ pc = "human_input"
    /\ \E in \in Typed \cup {EOF} :
          IF in = EOF
          THEN /\ pc' = "exit"
               /\ UNCHANGED <<board, applied>>
          ELSE IF ~IsNumber(in) \/ int(in) \notin DOMAIN moves
          THEN /\ pc' = "human_input"
               /\ UNCHANGED <<board, applied>>
          ELSE LET coord == moves[int(in)]
                   can_move == set_move(board, coord[1], coord[2], HUMAN)
               IN  /\ board' = can_move.board
                   /\ applied' = applied + (IF can_move.ok THEN 1 ELSE 0)
                   /\ pc' = (IF can_move.ok THEN "ai" ELSE "human_input")
    /\ UNCHANGED <<h_choice, c_choice, first, games, msg, harnessVars>>

(* ai_turn(c_choice, h_choice) at the end of the loop body. *)
AiTurn ==
    /\ pc = "ai"
    /\ \E b \in ai_turn(board) :
          /\ board' = b
          /\ applied' = applied + Moved(board, b)
    /\ pc' = "loop"
    /\ UNCHANGED <<h_choice, c_choice, first, games, msg, harnessVars>>

(* The end-of-game message. *)
Announce ==
    /\ pc = "announce"
    /\ msg' = (IF wins(board, HUMAN) THEN "YOU WIN!"
               ELSE IF wins(board, COMP) THEN "YOU LOSE!"
               ELSE "DRAW!")
    /\ pc' = "again"
    /\ UNCHANGED <<board, h_choice, c_choice, first, games, applied,
                   harnessVars>>

(* play_again = input(...): "Y" calls main() again, anything else exits   *)
(* (end of input is not caught here and ends the program too).            *)
PlayAgain ==
    /\ pc = "again"
    /\ \E in \in Lines \cup {EOF} :
          IF in # EOF /\ Upper(in) = "Y"
          THEN /\ games < MaxGames
               /\ games' = games + 1
               /\ h_choice' = ""
               /\ c_choice' = ""
               /\ first' = ""
               /\ applied' = 0
               /\ pc' = "symbol"
          ELSE /\ pc' = "exit"
               /\ UNCHANGED <<h_choice, c_choice, first, games, applied>>
    /\ UNCHANGED <<board, msg, harnessVars>>

Next ==
    \/ ChooseSymbol
    \/ ChooseFirst
    \/ LoopTest
    \/ AiFirst
    \/ HumanTurn
    \/ HumanInput
    \/ AiTurn
    \/ Announce
    \/ PlayAgain

Spec == Init /\ [][Next]_vars

(* The round of human_turn's input loop in which a free cell is entered. *)
HumanLegal == HumanInput /\ pc' = "ai"

(* The step in which the call of ai_turn at the end of the loop body     *)
(* returns, whatever it did to the board.  Under Spec the steps of this   *)
(* shape are the AiTurn steps, and one is possible exactly when           *)
(* pc = "ai": ai_turn returns from every board.  It is named apart so     *)
(* that whether it is possible is decided without running the search.    *)
AiTurnReturns ==
    /\ pc = "ai"
    /\ pc' = "loop"
    /\ board' \in Boards
    /\ applied' \in {applied, applied + 1}
    /\ UNCHANGED <<h_choice, c_choice, first, games, msg, harnessVars>>

(* main with its scheduling: the interpreter runs each statement it has  *)
(* reached, and a human who is asked for a move goes on typing until a   *)
(* free cell is entered, unless the input ends.  The three prompts of    *)
(* main (symbol, first, play again) may wait for ever.                   *)
SpecLive ==
    /\ Spec
    /\ WF_vars(LoopTest)
    /\ WF_vars(AiFirst)
    /\ WF_vars(HumanTurn)
    /\ SF_vars(HumanLegal)
    /\ WF_vars(AiTurnReturns)
    /\ WF_vars(Announce)

(* ============================================= calls on arbitrary boards *)
(* The functions of the module called once on a board of any content.     *)
mainIdle ==
    /\ h_choice = ""
    /\ c_choice = ""
    /\ first = ""
    /\ games = 1
    /\ applied = 0
    /\ msg = ""

Searchable(b) == Len(empty_cells(b)) <= MaxEmpty \/ b \in Scenarios

InitUnit ==
    /\ board \in Boards
    /\ pc = "unit"
    /\ mainIdle
    /\ turn = 0
    /\ call = NoCall
    /\ ret = NoRet

UnitMinimax ==
    /\ pc = "unit"
    /\ Searchable(board)
    /\ \E depth \in Depths, player \in Players :
          LET r == minimax(board, depth, player)
          IN  /\ call' = [op |-> "minimax", state |-> board, depth |-> depth,
                          player |-> player, reverted |-> r.reverted]
              /\ board' = r.state
              /\ ret' = r.best
    /\ pc' = "returned"
    /\ UNCHANGED <<mainVars, turn>>

UnitSetMove ==
    /\ pc = "unit"
    /\ \E x \in Coords, y \in Coords, player \in Players :
          LET r == set_move(board, x, y, player)
          IN  /\ call' = [op |-> "set_move", state |-> board, x |-> x,
                          y |-> y, player |-> player]
              /\ board' = r.board
              /\ ret' = r.ok
    /\ pc' = "returned"
    /\ UNCHANGED <<mainVars, turn>>

UnitWins ==
    /\ pc = "unit"
    /\ \E player \in Players :
          /\ call' = [op |-> "wins", state |-> board, player |-> player]
          /\ ret' = wins(board, player)
    /\ pc' = "returned"
    /\ UNCHANGED <<board, mainVars, turn>>

UnitEvaluate ==
    /\ pc = "unit"
    /\ call' = [op |-> "evaluate", state |-> board]
    /\ ret' = evaluate(board)
    /\ pc' = "returned"
    /\ UNCHANGED <<board, mainVars, turn>>

(* game_over, evaluate and empty_cells on the same board. *)
UnitGameOver ==
    /\ pc = "unit"
    /\ call' = [op |-> "game_over", state |-> board]
    /\ ret' = [game_over |-> game_over(board),
               evaluate |-> evaluate(board),
               empty_cells |-> empty_cells(board)]
    /\ pc' = "returned"
    /\ UNCHANGED <<board, mainVars, turn>>

NextUnit ==
    \/ UnitMinimax
    \/ UnitSetMove
    \/ UnitWins
    \/ UnitEvaluate
    \/ UnitGameOver

SpecUnit == InitUnit /\ [][NextUnit]_vars

(* ================================================ calls along legal play *)
(* The two sides move in turn from the empty board, either side first,    *)
(* through set_move, until a side has won or the board is full; minimax   *)
(* is called at a position with the depth ai_turn gives it.               *)
InitPlay ==
    /\ board = EmptyBoard
    /\ pc = "play"
    /\ mainIdle
    /\ turn \in Players
    /\ call = NoCall
    /\ ret = NoRet

PlayMove ==
    /\ pc = "play"
    /\ ~game_over(board)
    /\ \E x \in Idx, y \in Idx :
          /\ set_move(board, x, y, turn).ok
          /\ board' = set_move(board, x, y, turn).board
    /\ turn' = -turn
    /\ UNCHANGED <<pc, mainVars, call, ret>>

PlaySearch ==
    /\ pc = "play"
    /\ ~game_over(board)
    /\ Len(empty_cells(board)) \in 1..MaxSearch
    /\ LET r == minimax(board, Len(empty_cells(board)), turn)
       IN  /\ call' = [op |-> "minimax", state |-> board,
                       depth |-> Len(empty_cells(board)), player |-> turn,
                       reverted |-> r.reverted]
           /\ board' = r.state
           /\ ret' = r.best
    /\ pc' = "returned"
    /\ UNCHANGED <<mainVars, turn>>

(* minimax(empty board, 9, COMP), the search ai_turn replaces by choice(). *)
PlayOpening ==
    /\ pc = "play"
    /\ board = EmptyBoard
    /\ turn = COMP
    /\ LET r == minimax(board, 9, COMP)
       IN  /\ call' = [op |-> "minimax", state |-> board, depth |-> 9,
                       player |-> COMP, reverted |-> r.reverted]
           /\ board' = r.state
           /\ ret' = r.best
    /\ pc' = "returned"
    /\ UNCHANGED <<mainVars, turn>>

NextPlay ==
    \/ PlayMove
    \/ PlaySearch
    \/ PlayOpening

SpecPlay == InitPlay /\ [][NextPlay]_vars

(* =============================================================== claims *)
IsMinimaxCall == call.op = "minimax"

(* C1: minimax leaves the board it was given cell for cell as it was, for  *)
(* every board, depth and player, and every speculative placement of the  *)
(* candidate loop is reverted before the next candidate is tried.         *)
C1_MinimaxLeavesBoard ==
    IsMinimaxCall => (board = call.state /\ call.reverted)

(* A search two plies deep over two empty cells: placements nested inside *)
(* a candidate loop that goes on to a second candidate.                   *)
C1_Witness ==
    /\ IsMinimaxCall
    /\ Len(empty_cells(call.state)) = 2
    /\ ~game_over(call.state)
    /\ call.depth = 2
    /\ ret[1] # -1

(* C2: on a board with an empty cell and no winning line, for every depth *)
(* from 1 to 9 and either player, minimax returns the coordinates of a    *)
(* cell that was empty before the call.                                   *)
C2_MinimaxReturnsEmptyCell ==
    (/\ IsMinimaxCall
     /\ Len(empty_cells(call.state)) >= 1
     /\ ~game_over(call.state)
     /\ call.depth \in 1..9)
    => /\ ret[1] \in Idx
       /\ ret[2] \in Idx
       /\ call.state[ret[1]][ret[2]] = EMPTY

(* C3: a search of a board with no empty cell at a depth above 0, or of a *)
(* board a side has won, returns (-1, -1, evaluate(state)).               *)
C3_ExhaustedOrWonIsLeaf ==
    (/\ IsMinimaxCall
     /\ \/ Len(empty_cells(call.state)) = 0 /\ call.depth > 0
        \/ game_over(call.state))
    => /\ ret = <<-1, -1, evaluate(call.state)>>
       /\ ret[3] \in {-1, 0, 1}

IsScenarioCall(b) ==
    /\ IsMinimaxCall
    /\ call.state = b
    /\ call.depth = 7
    /\ call.player = COMP

(* C4: minimax(Scenario2, 7, COMP) returns the move (0, 2) with a score   *)
(* other than -1.                                                         *)
C4_Scenario2Block ==
    IsScenarioCall(Scenario2) => (ret[1] = 0 /\ ret[2] = 2 /\ ret[3] # -1)

(* The value of a position under best play by both sides, from the rules  *)
(* of the game alone: a line of three decides, a full board is a draw,    *)
(* COMP takes the greatest value of its moves and HUMAN the smallest.     *)
HasLine(b, p) ==
    \/ \E x \in Idx : \A y \in Idx : b[x][y] = p
    \/ \E y \in Idx : \A x \in Idx : b[x][y] = p
    \/ \A k \in Idx : b[k][k] = p
    \/ \A k \in Idx : b[k][2 - k] = p

Greatest(S) == CHOOSE v \in S : \A w \in S : v >= w
Smallest(S) == CHOOSE v \in S : \A w \in S : v =< w

GameValue[b \in Boards, p \in Players] ==
    IF HasLine(b, COMP) THEN 1
    ELSE IF HasLine(b, HUMAN) THEN -1
    ELSE LET free == {c \in Idx \X Idx : b[c[1]][c[2]] = EMPTY}
             vals == {GameValue[[b EXCEPT ![c[1]][c[2]] = p], -p] : c \in free}
         IN  IF free = {} THEN 0
             ELSE IF p = COMP THEN Greatest(vals) ELSE Smallest(vals)

(* C5: at a position of legal alternating play that is not over, minimax  *)
(* with depth = number of empty cells and the side to move returns the    *)
(* value of the position, and a move to a position of that same value.    *)
C5_SearchFindsGameValue ==
    (pc = "returned" /\ IsMinimaxCall)
    => /\ ret[3] = GameValue[call.state, call.player]
       /\ ret[1] \in Idx
       /\ ret[2] \in Idx
       /\ call.state[ret[1]][ret[2]] = EMPTY
       /\ GameValue[[call.state EXCEPT ![ret[1]][ret[2]] = call.player],
                    -call.player] = ret[3]

(* COMP to move in a position it loses against best play. *)
C5_Witness ==
    /\ pc = "returned"
    /\ IsMinimaxCall
    /\ call.player = COMP
    /\ call.depth >= 4
    /\ ret[3] = -1

(* C6: when main() is called again to play again, its move loop starts on *)
(* a board whose nine cells are empty.                                    *)
C6_NewGameStartsEmpty ==
    (games > 1 /\ pc = "loop" /\ applied = 0) => board = EmptyBoard

(* C7: minimax(Scenario1, 7, COMP) returns the move (0, 2) with score 1.  *)
C7_Scenario1Win ==
    IsScenarioCall(Scenario1) => ret = <<0, 2, 1>>

C7_Witness == IsScenarioCall(Scenario1)

IsOpeningCall ==
    /\ IsMinimaxCall
    /\ call.state = EmptyBoard
    /\ call.depth = 9
    /\ call.player = COMP

(* C8: the score of minimax(empty board, 9, COMP) is 0.                   *)
C8_OpeningIsDraw == IsOpeningCall => ret[3] = 0

C8_Witness == IsOpeningCall /\ ret[1] \in Idx

OnGrid(x, y) == x \in Idx /\ y \in Idx

(* C9: set_move on an empty cell of the grid sets that cell to the player, *)
(* leaves the other eight cells alone and returns true; off the grid or   *)
(* on an occupied cell it returns false and leaves the board alone.       *)
C9_SetMoveAtomic ==
    call.op = "set_move"
    => IF OnGrid(call.x, call.y) /\ call.state[call.x][call.y] = EMPTY
       THEN /\ ret = TRUE
            /\ board[call.x][call.y] = call.player
            /\ \A x \in Idx, y \in Idx :
                  <<x, y>> # <<call.x, call.y>> => board[x][y] = call.state[x][y]
       ELSE /\ ret = FALSE
            /\ board = call.state

(* set_move refused on an occupied cell. *)
C9_Witness ==
    /\ call.op = "set_move"
    /\ OnGrid(call.x, call.y)
    /\ call.state[call.x][call.y] = -call.player
    /\ ret = FALSE

(* C10: wins(state, p) is true exactly when one of the three rows, three  *)
(* columns and two diagonals holds p in all three cells.                  *)
C10_WinsIffLine ==
    call.op = "wins" => (ret <=> HasLine(call.state, call.player))

(* A win on the second diagonal alone. *)
C10_Witness ==
    /\ call.op = "wins"
    /\ ret = TRUE
    /\ \A k \in Idx : call.state[2 - k][k] = call.player
    /\ call.state[0][0] # call.player
    /\ call.state[2][2] # call.player

(* C11: evaluate returns one of -1, 0, +1 on every board: +1 if COMP has a *)
(* line, else -1 if HUMAN has a line, else 0 (on a board where both sides *)
(* have a line the first case applies, as in the source's if / elif).     *)
C11_EvaluateScore ==
    call.op = "evaluate"
    => /\ ret \in {-1, 0, 1}
       /\ ret = (IF HasLine(call.state, COMP) THEN 1
                 ELSE IF HasLine(call.state, HUMAN) THEN -1
                 ELSE 0)

(* evaluate on a board HUMAN has won. *)
C11_Witness ==
    /\ call.op = "evaluate"
    /\ HasLine(call.state, HUMAN)
    /\ ret = -1

Full(b) == \A x \in Idx, y \in Idx : b[x][y] # EMPTY

(* C12: game_over is true exactly when HUMAN or COMP has a line; on a full *)
(* board without a line game_over is false and evaluate is 0, and only    *)
(* empty_cells, which is empty exactly on the full boards, tells that the *)
(* board is exhausted.                                                    *)
C12_GameOverIffLine ==
    call.op = "game_over"
    => /\ ret.game_over
          <=> (HasLine(call.state, HUMAN) \/ HasLine(call.state, COMP))
       /\ (Len(ret.empty_cells) = 0) <=> Full(call.state)
       /\ (Full(call.state) /\ ~HasLine(call.state, HUMAN)
             /\ ~HasLine(call.state, COMP))
          => (ret.game_over = FALSE /\ ret.evaluate = 0)

(* A full board without a line. *)
C12_Witness ==
    /\ call.op = "game_over"
    /\ Full(call.state)
    /\ ret.game_over = FALSE
    /\ ret.evaluate = 0
    /\ ret.empty_cells = << >>

(* C13: in every game main drives, whoever moves first, whichever cell   *)
(* the random opening takes and whatever the human types, no board has a  *)
(* line of three HUMAN marks.                                             *)
C13_HumanNeverWins == ~HasLine(board, HUMAN)

(* The human, moving first, has two marks in a line whose third cell the  *)
(* computer has just taken.                                               *)
C13_Witness ==
    /\ pc = "loop"
    /\ first = "Y"
    /\ \E x \in Idx :
          \E y \in Idx :
             /\ board[x][y] = COMP
             /\ \A z \in Idx \ {y} : board[x][z] = HUMAN

Changed(b, b2) == {c \in Idx \X Idx : b[c[1]][c[2]] # b2[c[1]][c[2]]}

(* The side whose turn function is running. *)
Mover == IF pc = "human_input" THEN HUMAN ELSE COMP

(* C14: a step of a game changes the board only by an applied move, which *)
(* turns exactly one EMPTY cell into the mover's mark; a cell that holds  *)
(* a mark keeps it in every later step (a turn, or the minimax call       *)
(* inside it, never clears or overwrites it).                             *)
C14_MovesOnlyFillEmptyCells ==
    [][/\ \A x \in Idx, y \in Idx :
             board[x][y] # EMPTY => board'[x][y] = board[x][y]
       /\ Cardinality(Changed(board, board')) =< 1
       /\ (applied' = applied + 1) <=> (board' # board)
       /\ board' # board
          => /\ pc \in {"human_input", "ai", "ai_first"}
             /\ \A c \in Changed(board, board') :
                   /\ board[c[1]][c[2]] = EMPTY
                   /\ board'[c[1]][c[2]] = Mover]_vars

(* Nine moves applied in one game. *)
C14_Witness == applied = 9 /\ Full(board)

(* The score of the i-th candidate of the call, the score its child      *)
(* search returns.                                                        *)
CandidateScore(i) ==
    LET c == empty_cells(call.state)[i]
    IN  minimax(Place(call.state, c[1], c[2], call.player),
                call.depth - 1, -call.player).best[3]

BestScore ==
    LET scores == {CandidateScore(i) : i \in 1..Len(empty_cells(call.state))}
    IN  IF call.player = COMP THEN Greatest(scores) ELSE Smallest(scores)

(* C15: at a minimax node that has candidates, the cell returned is the   *)
(* first cell in row-major order whose score is the best score of the     *)
(* candidates (greatest for COMP, smallest for HUMAN), with that score.   *)
C15_FirstBestCandidate ==
    (/\ IsMinimaxCall
     /\ ~IsLeaf(call.state, call.depth)
     /\ Len(empty_cells(call.state)) >= 1)
    => \E i \in 1..Len(empty_cells(call.state)) :
          /\ CandidateScore(i) = BestScore
          /\ \A j \in 1..(i - 1) : CandidateScore(j) # BestScore
          /\ <<ret[1], ret[2]>> = empty_cells(call.state)[i]
          /\ ret[3] = BestScore

(* The computer's turn function is about to run and will move. *)
ComputerToMove ==
    /\ pc \in {"ai", "ai_first"}
    /\ Len(empty_cells(board)) > 0
    /\ ~game_over(board)

(* On the empty board every one of the nine cells is a possible move. *)
OpeningIsAnyCell ==
    (ComputerToMove /\ board = EmptyBoard)
    => \A x \in Idx, y \in Idx :
          [EmptyBoard EXCEPT ![x][y] = COMP] \in ai_turn(board)

(* The step the computer's turn takes. *)
ComputerMoveAsClaimed ==
    ComputerToMove
    => IF board = EmptyBoard
       THEN /\ applied' = applied + 1
            /\ \E x \in Idx, y \in Idx :
                  board' = [EmptyBoard EXCEPT ![x][y] = COMP]
       ELSE LET best == minimax(board, Len(empty_cells(board)), COMP).best
            IN  /\ best[1] \in Idx
                /\ best[2] \in Idx
                /\ board[best[1]][best[2]] = EMPTY
                /\ board' = [board EXCEPT ![best[1]][best[2]] = COMP]

(* C16: the computer's move on the empty board is not minimax's but any   *)
(* of the nine cells, and is applied; at every other turn of the computer *)
(* the move applied is the (row, col) that                                *)
(* minimax(board, number of empty cells, COMP) returns.                   *)
C16_OpeningPolicy ==
    []OpeningIsAnyCell /\ [][ComputerMoveAsClaimed]_vars

(* The computer has opened on a cell other than the one minimax names on  *)
(* the empty board, (0, 0), and has answered the human's reply.           *)
C16_Witness ==
    /\ pc = "loop"
    /\ applied = 3
    /\ board[0][0] = EMPTY
    /\ Cardinality({c \in Idx \X Idx : board[c[1]][c[2]] = COMP}) = 2

(* The number of cells of b that hold player's mark. *)
Marks(b, player) ==
    Cardinality({c \in Idx \X Idx : b[c[1]][c[2]] = player})

(* The numbers of marks of the two sides differ by at most 1. *)
CountsBalanced ==
    Marks(board, HUMAN) - Marks(board, COMP) \in {-1, 0, 1}

(* A step taken on a finished board leaves the board as it is. *)
NoMoveAfterEnd ==
    (game_over(board) \/ Full(board))
    => /\ board' = board
       /\ applied' \in {applied, 0}

(* C17: in every reachable state of a game the numbers of HUMAN and COMP  *)
(* marks differ by at most 1, and once a side has a line or the board is  *)
(* full neither human_turn nor ai_turn applies a further move.            *)
C17_TurnsAlternate ==
    []CountsBalanced /\ [][NoMoveAfterEnd]_vars

(* The human began and filled the board with the ninth move; ai_turn was  *)
(* then called on the full board and the loop is about to be left.        *)
C17_Witness ==
    /\ pc = "loop"
    /\ games = 1
    /\ Full(board)
    /\ Marks(board, HUMAN) = Marks(board, COMP) + 1

(* The main loop is left only on a finished board, and no game applies  *)
(* more than 9 moves.                                                    *)
LoopEndsOnFinishedBoard ==
    /\ applied \in 0..9
    /\ (pc \in {"announce", "again"}) => (game_over(board) \/ Full(board))

(* The message printed is the one the final board calls for. *)
AnnouncedMatchesBoard ==
    (pc = "again")
    => /\ msg \in {"YOU WIN!", "YOU LOSE!", "DRAW!"}
       /\ (msg = "YOU WIN!") <=> HasLine(board, HUMAN)
       /\ (msg = "YOU LOSE!") <=> (HasLine(board, COMP) /\ ~HasLine(board, HUMAN))
       /\ (msg = "DRAW!")
             <=> (Full(board) /\ ~HasLine(board, HUMAN) /\ ~HasLine(board, COMP))

(* C18: every game terminates: with a human who eventually enters a free *)
(* cell at each turn (or whose input ends, which ends the program), the  *)
(* main loop reaches a board with a winner or no empty cell after at     *)
(* most 9 applied moves, and then exactly one of human win, computer win *)
(* and draw is announced, the one the final board shows.                 *)
C18_GameTerminates ==
    /\ []LoopEndsOnFinishedBoard
    /\ []AnnouncedMatchesBoard
    /\ (pc = "loop") ~> (pc = "announce" \/ pc = "exit")
    /\ (pc = "announce") ~> (pc = "again")

(* A game of nine moves has ended in a draw and the draw was announced. *)
C18_Witness ==
    /\ pc = "again"
    /\ games = 1
    /\ applied = 9
    /\ msg = "DRAW!"

=============================================================================
